---- MODULE Spec2Model ----
(***************************************************************************)
(* Model of cli/tools/lint/mod.rs: the lint command's orchestration        *)
(* (lint_files), the per-file closure run by the file pool, the fix loop   *)
(* (lint_file_and_fix, apply_lint_fixes), the workspace (no-slow-types)    *)
(* task and the JSON reporter.                                             *)
(***************************************************************************)
EXTENDS Integers, Sequences, FiniteSets, TLC

\* ------------------------------------------------------------------ bounds
MaxOff == 4          \* byte offsets of the edits of SpecFixes range over 0..MaxOff
MaxEdits == 3        \* longest flattened edit list drawn in SpecFixes
MaxTextLen == 1      \* longest file text of the run specifications
MaxLintDiags == 2    \* most diagnostics one analyzer invocation returns
MaxSortLen == 3      \* most diagnostics given to sort_diagnostics on its own
MaxSurfaceDiags == 2 \* most no-slow-types diagnostics of one workspace member

\* -------------------------------------------------------- program constants
MAX_FIX_ITERATIONS == 5   \* the literal of `if fix_iterations > 5`

\* Option<T>
None == [some |-> FALSE]

Some(v) == [some |-> TRUE, value |-> v]

\* ------------------------------------------------------------ sequences
Range(s) == {s[k] : k \in DOMAIN s}

RemoveAt(s, i) == SubSeq(s, 1, i - 1) \o SubSeq(s, i + 1, Len(s))

RECURSIVE Concat(_)
Concat(ss) == IF ss = <<>> THEN <<>> ELSE Head(ss) \o Concat(Tail(ss))

SeqsUpTo(S, n) == UNION {[1..k -> S] : k \in 0..n}

\* --------------------------------------------------------- apply_lint_fixes
\* A TextChange is [start, end, new_text]; a fix is a sequence of changes; a
\* LintDiagnostic is [specifier, start, code, fixes].

\* Vec::insert position of a stable sort by key `start`: after every element
\* whose key is <= the new key.
RECURSIVE InsertByStart(_, _)
InsertByStart(sorted, c) ==
  IF sorted = <<>> THEN <<c>>
  ELSE IF Head(sorted).start <= c.start
       THEN <<Head(sorted)>> \o InsertByStart(Tail(sorted), c)
       ELSE <<c>> \o sorted

\* quick_fixes.sort_by_key(|change| change.range.start): a stable sort.
RECURSIVE SortByStart(_)
SortByStart(q) ==
  IF q = <<>> THEN <<>>
  ELSE InsertByStart(SortByStart(SubSeq(q, 1, Len(q) - 1)), q[Len(q)])

\* diagnostics.iter().filter_map(|d| d.fixes.first()).flat_map(|fix| fix.changes.iter())
RECURSIVE QuickFixes(_)
QuickFixes(diagnostics) ==
  IF diagnostics = <<>> THEN <<>>
  ELSE (IF Head(diagnostics).fixes = <<>> THEN <<>> ELSE Head(diagnostics).fixes[1])
       \o QuickFixes(Tail(diagnostics))

\* A scan that keeps the last survivor in hand (what a forward scan would do).
RECURSIVE ForwardScan(_, _)
ForwardScan(kept, rest) ==
  IF rest = <<>> THEN kept
  ELSE IF kept # <<>> /\ Head(rest).start < kept[Len(kept)].end
       THEN ForwardScan(kept, Tail(rest))
       ELSE ForwardScan(Append(kept, Head(rest)), Tail(rest))

RemoveOverlappingForward(q, i) == ForwardScan(<<>>, q)

\* for i in (1..quick_fixes.len()).rev() { ... quick_fixes.remove(i) }, with the
\* 0-based index i of the code written i-1 (so i runs from Len(q) down to 2).
RECURSIVE RemoveOverlapping(_, _)
RemoveOverlapping(q, i) ==
  IF i < 2 THEN q
  ELSE LET cur == q[i]
           previous == q[i - 1]
           is_overlapping == cur.start < previous.end
       IN RemoveOverlapping(IF is_overlapping THEN RemoveAt(q, i) ELSE q, i - 1)

\* apply_lint_fixes without its `if quick_fixes.is_empty()` return.
FixBatchWithoutEmptyCheck(diagnostics) ==
  IF diagnostics = <<>> THEN None
  ELSE Some(RemoveOverlapping(SortByStart(QuickFixes(diagnostics)),
                              Len(QuickFixes(diagnostics))))

\* The batch apply_lint_fixes hands to apply_text_changes, or None when it
\* returns before building one.
FixBatch(diagnostics) ==
  IF diagnostics = <<>> THEN None
  ELSE LET quick_fixes == QuickFixes(diagnostics)
       IN IF quick_fixes = <<>> THEN None
          ELSE Some(RemoveOverlapping(SortByStart(quick_fixes), Len(quick_fixes)))

\* ------------------------------------------------------------------- texts
\* A text is a sequence of one-character strings.
Alphabet == {"a", "\n"}

Texts == SeqsUpTo(Alphabet, MaxTextLen)

\* deno_ast::apply_text_changes over a batch sorted by start: the text between
\* the changes is kept and each range is replaced by its new_text. `from` is the
\* 0-based offset already copied.
RECURSIVE Splice(_, _, _)
Splice(text, changes, from) ==
  IF changes = <<>> THEN SubSeq(text, from + 1, Len(text))
  ELSE LET c == Head(changes)
       IN SubSeq(text, from + 1, c.start) \o c.new_text \o Splice(text, Tail(changes), c.end)

\* Whether two changes of the batch overlap (the batch is sorted by start).
IsOverlappingBatch(changes) ==
  \E i, j \in DOMAIN changes : i < j /\ changes[j].start < changes[i].end

\* apply_text_changes panics on an overlapping batch.
Panic == [some |-> TRUE, panic |-> TRUE]

ApplyTextChanges(text, changes) ==
  IF IsOverlappingBatch(changes) THEN Panic
  ELSE [some |-> TRUE, panic |-> FALSE, value |-> Splice(text, changes, 0)]

\* apply_lint_fixes: Option<String>, or the panic of apply_text_changes.
ApplyLintFixes(text, diagnostics) ==
  LET batch == FixBatch(diagnostics)
  IN IF ~batch.some THEN None ELSE ApplyTextChanges(text, batch.value)

\* text_info.line_and_column_index(pos): 0-based line and column of a byte offset.
RECURSIVE LineIndex(_, _)
LineIndex(text, pos) ==
  IF pos = 0 THEN 0
  ELSE LineIndex(text, pos - 1) + (IF text[pos] = "\n" THEN 1 ELSE 0)

RECURSIVE ColumnIndex(_, _)
ColumnIndex(text, pos) ==
  IF pos = 0 \/ text[pos] = "\n" THEN 0 ELSE ColumnIndex(text, pos - 1) + 1

\* JsonDiagnosticLintPosition::new: the 1-indexed line, the 0-indexed column.
JsonDiagnosticLintPosition(text, pos) ==
  [line |-> LineIndex(text, pos) + 1, col |-> ColumnIndex(text, pos), byte_pos |-> pos]

\* ------------------------------------------------------------ identities
\* The target files, in lexicographic order, and the order of their specifiers.
Files == <<"/a.ts", "/b.ts">>

Specifier(path) == "file://" \o path

\* The URL of a module that is no target file; it sorts after the targets'.
OtherUrl == "file:///other.ts"

\* initial_cwd().join(STDIN_FILE_NAME), the name of the text of standard input;
\* its specifier sorts before the targets'.
StdinPath == "/$deno$stdin.ts"

Index(seq, x) == CHOOSE k \in DOMAIN seq : seq[k] = x

\* Ord::cmp of two specifiers (strings): "Less", "Equal" or "Greater".
CmpInt(x, y) == IF x < y THEN "Less" ELSE IF x = y THEN "Equal" ELSE "Greater"

CmpSpecifier(x, y) ==
  LET known == <<Specifier(StdinPath)>> \o [k \in DOMAIN Files |-> Specifier(Files[k])]
               \o <<OtherUrl>>
  IN CmpInt(Index(known, x), Index(known, y))

\* ---------------------------------------------------------------- analyzer
\* Linter::lint_file is the external analyzer: each invocation returns an error
\* or the parsed source with a list of diagnostics, any of the lists below.
RuleCodes == <<"ban-x", "prefer-y">>

LintDiagnostic(path, start, code, fixes) ==
  [specifier |-> Specifier(path), start |-> start, code |-> code, fixes |-> fixes]

TextChange(start, end, new_text) == [start |-> start, end |-> end, new_text |-> new_text]

\* The changes a fix of "rewrite-z" is made of: an insertion before the text,
\* while the text is within MaxTextLen, and the deletion or the replacement of
\* its first character.
RewriteChanges(text) ==
  (IF Len(text) <= MaxTextLen THEN {TextChange(0, 0, <<"a">>)} ELSE {})
  \cup (IF Len(text) >= 1 THEN {TextChange(0, 1, <<>>), TextChange(0, 1, <<"a">>)} ELSE {})

\* The fixes of "rewrite-z": any changes, in any order.
RewriteFixes(text) == SeqsUpTo(RewriteChanges(text), MaxEdits) \ {<<>>}

\* The diagnostics the rules can report on a text: "ban-x" reports at any
\* offset and has no fix; "prefer-y" reports at offset 0 with one fix of one
\* change, which deletes the first character or, while the text stays within
\* MaxTextLen, inserts one; "rewrite-z" reports at offset 0 with one fix of
\* several changes.
DiagnosticPool(path, text, rules) ==
  (IF "ban-x" \in rules
   THEN {LintDiagnostic(path, s, "ban-x", <<>>) : s \in 0..Len(text)}
   ELSE {})
  \cup
  (IF "prefer-y" \in rules
   THEN {LintDiagnostic(path, 0, "prefer-y", << <<TextChange(0, 1, <<>>)>> >>) :
           k \in 1..(IF Len(text) >= 1 THEN 1 ELSE 0)}
        \cup
        {LintDiagnostic(path, 0, "prefer-y", << <<TextChange(0, 0, <<"a">>)>> >>) :
           k \in 1..(IF Len(text) < MaxTextLen THEN 1 ELSE 0)}
   ELSE {})
  \cup
  (IF "rewrite-z" \in rules
   THEN {LintDiagnostic(path, 0, "rewrite-z", <<changes>>) : changes \in RewriteFixes(text)}
   ELSE {})

\* The lists of diagnostics one analysis can return: "prefer-y" and "rewrite-z"
\* report at most once.
DiagnosticLists(path, text, rules) ==
  {ds \in SeqsUpTo(DiagnosticPool(path, text, rules), MaxLintDiags) :
     /\ Cardinality({k \in DOMAIN ds : ds[k].code = "prefer-y"}) <= 1
     /\ Cardinality({k \in DOMAIN ds : ds[k].code = "rewrite-z"}) <= 1}

LintErr(msg) == [kind |-> "err", err |-> msg]

LintOk(source, diagnostics) == [kind |-> "ok", source |-> source, diagnostics |-> diagnostics]

NoResult == [kind |-> "none"]

AnalyzerResults(path, text, rules) ==
  {LintErr("syntax error")}
  \cup {LintOk(text, ds) : ds \in DiagnosticLists(path, text, rules)}

\* ------------------------------------------------------------ JSON reporter
NO_SLOW_TYPES_NAME == "no-slow-types"

\* A FastCheckDiagnostic is [specifier, range], the range None or Some of
\* [text, start]: the text it points into and the byte offset.
FastCheckDiagnostic(specifier, range) == [specifier |-> specifier, range |-> range]

\* JsonLintDiagnostic of LintOrCliDiagnostic::Lint(d), d reported on `text`.
JsonOfLint(d, text) ==
  [filename |-> d.specifier,
   range |-> Some(JsonDiagnosticLintPosition(text, d.start)),
   code |-> d.code]

\* JsonLintDiagnostic of LintOrCliDiagnostic::FastCheck(d).
JsonOfFastCheck(d) ==
  [filename |-> d.specifier,
   range |-> IF d.range.some
             THEN Some(JsonDiagnosticLintPosition(d.range.value.text, d.range.value.start))
             ELSE None,
   code |-> NO_SLOW_TYPES_NAME]

NewJsonLintReporter == [diagnostics |-> <<>>, errors |-> <<>>]

visit_diagnostic(reporter, jd) == [reporter EXCEPT !.diagnostics = Append(@, jd)]

RECURSIVE VisitAll(_, _)
VisitAll(reporter, jds) ==
  IF jds = <<>> THEN reporter ELSE VisitAll(visit_diagnostic(reporter, Head(jds)), Tail(jds))

visit_error(reporter, file_path, err) ==
  [reporter EXCEPT !.errors = Append(@, [file_path |-> file_path, message |-> err])]

\* The comparator of sort_diagnostics.
CmpJsonDiagnostic(a, b) ==
  LET file_order == CmpSpecifier(a.filename, b.filename)
  IN IF file_order = "Equal"
     THEN IF a.range.some
          THEN IF b.range.some
               THEN LET line_order == CmpInt(a.range.value.line, b.range.value.line)
                    IN IF line_order = "Equal"
                       THEN CmpInt(a.range.value.col, b.range.value.col)
                       ELSE line_order
               ELSE "Less"
          ELSE IF b.range.some THEN "Greater" ELSE "Equal"
     ELSE file_order

\* An insertion that puts d before the elements it compares equal to.
RECURSIVE InsertJsonBeforeEqual(_, _)
InsertJsonBeforeEqual(sorted, d) ==
  IF sorted = <<>> THEN <<d>>
  ELSE IF CmpJsonDiagnostic(Head(sorted), d) = "Less"
       THEN <<Head(sorted)>> \o InsertJsonBeforeEqual(Tail(sorted), d)
       ELSE <<d>> \o sorted

\* One insertion of the stable sort: d goes after every element that is not
\* greater than it.
RECURSIVE InsertJson(_, _)
InsertJson(sorted, d) ==
  IF sorted = <<>> THEN <<d>>
  ELSE IF CmpJsonDiagnostic(Head(sorted), d) # "Greater"
       THEN <<Head(sorted)>> \o InsertJson(Tail(sorted), d)
       ELSE <<d>> \o sorted

\* diagnostics.sort_by(..): a stable sort.
RECURSIVE sort_diagnostics(_)
sort_diagnostics(ds) ==
  IF ds = <<>> THEN <<>>
  ELSE InsertJson(sort_diagnostics(SubSeq(ds, 1, Len(ds) - 1)), ds[Len(ds)])

\* JsonLintReporter::close: sorts the diagnostics in place; the errors are
\* serialized as they are.
CloseReporter(reporter) == [reporter EXCEPT !.diagnostics = sort_diagnostics(@)]

\* handle_lint_result's sort of a file's diagnostics: by specifier, then by
\* range.start, stable.
RECURSIVE InsertLint(_, _)
InsertLint(sorted, d) ==
  IF sorted = <<>> THEN <<d>>
  ELSE LET file_order == CmpSpecifier(Head(sorted).specifier, d.specifier)
           order == IF file_order = "Equal" THEN CmpInt(Head(sorted).start, d.start)
                    ELSE file_order
       IN IF order # "Greater"
          THEN <<Head(sorted)>> \o InsertLint(Tail(sorted), d)
          ELSE <<d>> \o sorted

RECURSIVE SortFileDiagnostics(_)
SortFileDiagnostics(ds) ==
  IF ds = <<>> THEN <<>>
  ELSE InsertLint(SortFileDiagnostics(SubSeq(ds, 1, Len(ds) - 1)), ds[Len(ds)])

\* handle_lint_result without the visit_error of its Err arm.
HandleVisitsWithoutError(file_path, result, reporter) ==
  IF result.kind = "ok"
  THEN VisitAll(reporter,
                [k \in DOMAIN result.diagnostics |->
                   JsonOfLint(SortFileDiagnostics(result.diagnostics)[k], result.source)])
  ELSE reporter

\* handle_lint_result: the reporter after the visits, and the returned success.
HandleVisits(file_path, result, reporter) ==
  IF result.kind = "ok"
  THEN LET file_diagnostics == SortFileDiagnostics(result.diagnostics)
       IN VisitAll(reporter,
                   [k \in DOMAIN file_diagnostics |->
                      JsonOfLint(file_diagnostics[k], result.source)])
  ELSE visit_error(reporter, file_path, result.err)

\* handle_lint_result with its Err arm returning true.
HandleSuccessOnError(result) == result.kind = "err" \/ result.diagnostics = <<>>

HandleSuccess(result) == result.kind = "ok" /\ result.diagnostics = <<>>

\* --------------------------------------------------------- rules and cache
\* names.sort_unstable() over the rule codes, whose order is that of RuleCodes.
RECURSIVE InsertCode(_, _)
InsertCode(sorted, c) ==
  IF sorted = <<>> THEN <<c>>
  ELSE IF Index(RuleCodes, Head(sorted)) <= Index(RuleCodes, c)
       THEN <<Head(sorted)>> \o InsertCode(Tail(sorted), c)
       ELSE <<c>> \o sorted

RECURSIVE SortCodes(_)
SortCodes(names) ==
  IF names = <<>> THEN <<>> ELSE InsertCode(SortCodes(Tail(names)), Head(names))

UnsortedCacheState(lr) ==
  lr.rules \o (IF lr.no_slow_types THEN <<NO_SLOW_TYPES_NAME>> ELSE <<>>)

\* incremental_cache_state without the push of "no-slow-types".
SortedNamesOnly(lr) == SortCodes(lr.rules)

\* ConfiguredRules::incremental_cache_state
incremental_cache_state(lr) ==
  SortCodes(lr.rules) \o (IF lr.no_slow_types THEN <<NO_SLOW_TYPES_NAME>> ELSE <<>>)

\* IncrementalCache (crate::cache): an entry (path, text, state) says that the
\* file was clean with that text under that rule-set state.
is_file_same(db, state, path, text) == <<path, text, state>> \in db

\* ------------------------------------------------------------------- state
VARIABLES
  fix,             \* lint_options.fix
  lint_rules,      \* ConfiguredRules: [rules, no_slow_types]
  has_config,      \* maybe_config_file.is_some()
  members,         \* the workspace members: each [export_urls]
  paths,           \* the target files
  run,             \* which run of the command this is
  prev,            \* history: what the run before left
  disk,            \* the content of each target file
  cache_db,        \* the incremental cache's durable entries
  cache_updates,   \* the update_file calls of this run: (path, text)
  is_stdin,        \* whether lint was asked to lint standard input
  main_pc,         \* where lint, and then lint_files, is
  result,          \* what lint_files returned
  pc,              \* where each file's closure is
  source,          \* lint_file_and_fix: the text of `source`
  diagnostics,     \* lint_file_and_fix: `diagnostics`
  fix_iterations,  \* lint_file_and_fix: `fix_iterations`
  r,               \* the closure's `r`, the result of lint_file
  reporter,        \* the JsonLintReporter behind reporter_lock
  stdout,          \* the document close printed
  has_error,       \* the AtomicFlag
  ws_pc,           \* where the workspace task is
  ws_i,            \* the member it is at
  ws_diagnostics,  \* the diagnostics of that member, to be visited
  ws_visited,      \* history: the diagnostics the workspace task visited
  analyzed,        \* history: the files the analyzer was invoked on
  written,         \* history: the files fs::write wrote
  warned,          \* history: the files named by the non-convergence warning
  fx_edits,        \* SpecFixes: the changes of the first fixes, as drawn
  fx_diagnostics,  \* SpecFixes: the diagnostics given to apply_lint_fixes
  fx_batch,        \* SpecFixes: the batch it handed to apply_text_changes
  analysis,        \* history: each file's latest analyzer invocation
  disk_before,     \* history: the content of each file when the run began
  closed,          \* history: the check_count of each close call
  reporter_lock,   \* SpecLock: the task that holds reporter_lock, or "free"
  held_visits,     \* SpecLock: the visits made under the lock as now held
  pending,         \* SpecLock: what each task has still to visit under its guard
  rc_config,       \* SpecRules: the arguments of get_configured_rules
  rc_rules,        \* SpecRules: what it returned
  sd_input,        \* SpecSort: the diagnostics given to sort_diagnostics
  sd_output,       \* SpecSort: the diagnostics as it left them
  ics_rules,       \* SpecState: two ConfiguredRules
  ics_state        \* SpecState: incremental_cache_state of each

vars == <<fix, lint_rules, has_config, members, paths, run, prev, is_stdin, disk, cache_db, cache_updates,
          main_pc, result, pc, source, diagnostics, fix_iterations, r, reporter,
          stdout, has_error, ws_pc, ws_i, ws_diagnostics, ws_visited, analyzed,
          written, warned, fx_edits, fx_diagnostics, fx_batch, analysis, disk_before,
          closed, reporter_lock, held_visits, pending, rc_config, rc_rules, sd_input,
          sd_output, ics_rules, ics_state>>

config_vars == <<fix, lint_rules, has_config, members, paths, run, prev, is_stdin>>

file_vars == <<pc, source, diagnostics, fix_iterations, r, analyzed, written, warned,
               analysis>>

ws_vars == <<ws_pc, ws_i, ws_diagnostics, ws_visited>>

fx_vars == <<fx_edits, fx_diagnostics, fx_batch>>

lock_vars == <<reporter_lock, held_visits, pending>>

pure_vars == <<rc_config, rc_rules, sd_input, sd_output, ics_rules, ics_state>>

PathSet == Range(paths)

\* The tasks that report: a closure of the pool for each file, and the
\* workspace task.
Tasks == Range(Files) \cup {"ws"}

Rules == Range(lint_rules.rules)

CacheState == incremental_cache_state(lint_rules)

\* Ok(success) of lint_files
Flag(success) == [kind |-> "flag", success |-> success]

NoRunBefore == [result |-> NoResult]

\* No analyzer invocation yet: `count` invocations so far, the latest on `text`
\* with the result `result`.
NotAnalyzed == [count |-> 0, text |-> <<>>, result |-> NoResult]

Analyzed(before, text, res) == [count |-> before.count + 1, text |-> text, result |-> res]

NotConfigured == [ran |-> FALSE]

\* The state at the place `at` of lint or lint_files, before any task is
\* spawned, for a configuration, a disk and a cache.
InitAt(at, stdin, f, lr, cfg, ms, ps, dk, db) ==
  /\ run = 1
  /\ is_stdin = stdin
  /\ prev = NoRunBefore
  /\ fix = f
  /\ lint_rules = lr
  /\ has_config = cfg
  /\ members = ms
  /\ paths = ps
  /\ disk = dk
  /\ cache_db = db
  /\ cache_updates = {}
  /\ main_pc = at
  /\ result = NoResult
  /\ pc = [p \in Range(ps) |-> "idle"]
  /\ source = [p \in Range(ps) |-> <<>>]
  /\ diagnostics = [p \in Range(ps) |-> <<>>]
  /\ fix_iterations = [p \in Range(ps) |-> 0]
  /\ r = [p \in Range(ps) |-> NoResult]
  /\ reporter = NewJsonLintReporter
  /\ stdout = None
  /\ has_error = FALSE
  /\ ws_pc = "none"
  /\ ws_i = 1
  /\ ws_diagnostics = <<>>
  /\ ws_visited = <<>>
  /\ analyzed = {}
  /\ written = {}
  /\ warned = {}
  /\ analysis = [p \in Range(ps) |-> NotAnalyzed]
  /\ disk_before = dk
  /\ closed = <<>>
  /\ reporter_lock = "free"
  /\ held_visits = 0
  /\ pending = [task \in Tasks |-> <<>>]

\* The state lint_files starts in, for a configuration, a disk and a cache.
InitRun(f, lr, cfg, ms, ps, dk, db) == InitAt("start", FALSE, f, lr, cfg, ms, ps, dk, db)

\* The variables of the specifications of the pure functions, at rest.
NoPure ==
  /\ rc_config = NotConfigured
  /\ rc_rules = NotConfigured
  /\ sd_input = <<>>
  /\ sd_output = NotConfigured
  /\ ics_rules = NotConfigured
  /\ ics_state = NotConfigured

\* ---------------------------------------------------------------- lint_files
\* lint_files up to the spawns: the rule check of get_config_rules_err_empty,
\* the `?` of the setup calls, the spawn of the workspace task and of the pool.
LintFilesStart ==
  /\ main_pc = "start"
  /\ \E setup_ok \in BOOLEAN :
       IF lint_rules.rules = <<>> \/ ~setup_ok
       THEN /\ main_pc' = "returned"
            /\ result' = LintErr(IF lint_rules.rules = <<>>
                                 THEN "No rules have been configured"
                                 ELSE "setup failed")
            /\ UNCHANGED <<pc, ws_pc>>
       ELSE /\ main_pc' = "join"
            /\ result' = result
            /\ pc' = [p \in PathSet |-> "start"]
            /\ ws_pc' = IF lint_rules.no_slow_types /\ has_config THEN "graph" ELSE "none"
  /\ UNCHANGED <<config_vars, lock_vars, pure_vars, disk_before, closed,
                 disk, cache_db, cache_updates, source, diagnostics,
                 fix_iterations, r, reporter, stdout, has_error, ws_i, ws_diagnostics,
                 ws_visited, analyzed, written, warned, analysis, fx_vars>>

\* The spawned tasks run from the spawns until lint_files returns.
TasksRun == main_pc \in {"join", "wait", "close"}

\* Interleaving reduction. Between its start and its report a closure reads and
\* writes only its own file's state (its locals, its file, its update_file
\* entry), so these steps commute with every step of the other tasks: the model
\* takes them with no step of another closure's lint_file in between. Which
\* closure starts first, and the order of the reports and of the workspace
\* task's steps between them, stay free.
InLintFile(path) == pc[path] \in {"fix", "write"}

NoOtherInLintFile(path) == \A q \in PathSet \ {path} : ~InLintFile(q)

\* update_file given the text that was read instead of the returned source's.
UpdateFileWithReadText(path, res) ==
  IF res.kind = "ok" /\ res.diagnostics = <<>>
  THEN cache_updates \cup {<<path, disk[path]>>}
  ELSE cache_updates

\* update_file replacing what the other closures recorded.
UpdateFileAlone(path, res) ==
  IF res.kind = "ok" /\ res.diagnostics = <<>>
  THEN {<<path, res.source>>}
  ELSE {}

\* incremental_cache.update_file, called when the result is Ok with no diagnostics.
UpdateFile(path, res) ==
  IF res.kind = "ok" /\ res.diagnostics = <<>>
  THEN cache_updates \cup {<<path, res.source>>}
  ELSE cache_updates

\* The closure from read_to_string to the first analysis: the read, the cache
\* check and lint_file up to its first call of the analyzer; without --fix, also
\* update_file.
FileBegin(path) ==
  /\ TasksRun
  /\ pc[path] = "start"
  /\ \E read_ok \in BOOLEAN, res \in AnalyzerResults(path, disk[path], Rules) :
       IF ~read_ok
       THEN /\ pc' = [pc EXCEPT ![path] = "failed"]
            /\ UNCHANGED <<source, diagnostics, r, analyzed, analysis, cache_updates>>
       ELSE IF is_file_same(cache_db, CacheState, path, disk[path])
       THEN /\ pc' = [pc EXCEPT ![path] = "done"]
            /\ UNCHANGED <<source, diagnostics, r, analyzed, analysis, cache_updates>>
       ELSE /\ analyzed' = analyzed \cup {path}
            /\ analysis' = IF fix
                           THEN [analysis EXCEPT ![path] = Analyzed(@, disk[path], res)]
                           ELSE analysis
            /\ IF res.kind = "ok" /\ fix
               THEN /\ source' = [source EXCEPT ![path] = res.source]
                    /\ diagnostics' = [diagnostics EXCEPT ![path] = res.diagnostics]
                    /\ pc' = [pc EXCEPT ![path] = "fix"]
                    /\ UNCHANGED <<r, cache_updates>>
               ELSE /\ r' = [r EXCEPT ![path] = res]
                    /\ cache_updates' = UpdateFile(path, res)
                    /\ pc' = [pc EXCEPT ![path] = "report"]
                    /\ UNCHANGED <<source, diagnostics>>
  /\ UNCHANGED <<config_vars, lock_vars, pure_vars, disk_before, closed,
                 disk, cache_db, main_pc, result, fix_iterations, reporter,
                 stdout, has_error, ws_vars, written, warned, fx_vars>>

\* FileBegin under the interleaving reduction.
FileStart(path) == NoOtherInLintFile(path) /\ FileBegin(path)

\* The error of the analyzer as it is, as apply_lint_fixes_and_relint would
\* return it without its .context(..).
PLAIN_ANALYZER_ERROR == "syntax error"

FIX_SYNTAX_ERROR == "An applied lint fix caused a syntax error. Please report this bug."

\* The loop taking the new source and leaving the diagnostics behind.
WorkingPairOfSourceOnly(res) == [source |-> res.source, diagnostics |-> <<>>]

\* Some(change) => { source = change.0; diagnostics = change.1; }
WorkingPair(res) == [source |-> res.source, diagnostics |-> res.diagnostics]

\* One turn of the loop of lint_file_and_fix: apply_lint_fixes_and_relint, the
\* replacement of (source, diagnostics) and the iteration count.
FileFix(path) ==
  /\ TasksRun
  /\ pc[path] = "fix"
  /\ LET change == ApplyLintFixes(source[path], diagnostics[path])
     IN IF ~change.some
        THEN /\ pc' = [pc EXCEPT ![path] = "write"]
             /\ UNCHANGED <<source, diagnostics, fix_iterations, r, warned, analysis>>
        ELSE IF change.panic
        THEN /\ pc' = [pc EXCEPT ![path] = "panicked"]
             /\ UNCHANGED <<source, diagnostics, fix_iterations, r, warned, analysis>>
        ELSE \E res \in AnalyzerResults(path, change.value, Rules) :
               /\ analysis' = [analysis EXCEPT ![path] = Analyzed(@, change.value, res)]
               /\ IF res.kind = "err"
                  THEN /\ r' = [r EXCEPT ![path] = LintErr(FIX_SYNTAX_ERROR)]
                       /\ pc' = [pc EXCEPT ![path] = "report"]
                       /\ source' = [source EXCEPT ![path] = <<>>]
                       /\ diagnostics' = [diagnostics EXCEPT ![path] = <<>>]
                       /\ fix_iterations' = [fix_iterations EXCEPT ![path] = 0]
                       /\ warned' = warned
                  ELSE /\ source' = [source EXCEPT ![path] = WorkingPair(res).source]
                       /\ diagnostics' =
                            [diagnostics EXCEPT ![path] = WorkingPair(res).diagnostics]
                       /\ fix_iterations' = [fix_iterations EXCEPT ![path] = @ + 1]
                       /\ IF fix_iterations[path] + 1 > MAX_FIX_ITERATIONS
                          THEN /\ warned' = warned \cup {path}
                               /\ pc' = [pc EXCEPT ![path] = "write"]
                          ELSE /\ warned' = warned
                               /\ pc' = pc
                       /\ r' = r
  /\ UNCHANGED <<config_vars, lock_vars, pure_vars, disk_before, closed,
                 disk, cache_db, cache_updates, main_pc, result, reporter,
                 stdout, has_error, ws_vars, analyzed, written, fx_vars>>

WRITE_ERROR == "Failed writing fix to file."

\* The end of lint_file_and_fix (the write when fix_iterations > 0) and, back
\* in the closure, update_file. The locals of lint_file_and_fix end with it.
FileWrite(path) ==
  /\ TasksRun
  /\ pc[path] = "write"
  /\ \E write_ok \in (IF fix_iterations[path] > 0 THEN BOOLEAN ELSE {TRUE}) :
       LET res == IF write_ok THEN LintOk(source[path], diagnostics[path])
                  ELSE LintErr(WRITE_ERROR)
       IN /\ r' = [r EXCEPT ![path] = res]
          /\ disk' = IF fix_iterations[path] > 0 /\ write_ok
                     THEN [disk EXCEPT ![path] = source[path]] ELSE disk
          /\ written' = IF fix_iterations[path] > 0 /\ write_ok
                        THEN written \cup {path} ELSE written
          /\ cache_updates' = UpdateFile(path, res)
  /\ pc' = [pc EXCEPT ![path] = "report"]
  /\ source' = [source EXCEPT ![path] = <<>>]
  /\ diagnostics' = [diagnostics EXCEPT ![path] = <<>>]
  /\ fix_iterations' = [fix_iterations EXCEPT ![path] = 0]
  /\ analysis' = [analysis EXCEPT ![path] = NotAnalyzed]
  /\ UNCHANGED <<config_vars, lock_vars, pure_vars, disk_before, closed,
                 cache_db,
                 main_pc, result, reporter, stdout, has_error, ws_vars, analyzed, warned,
                 fx_vars>>

\* handle_lint_result, under reporter_lock, and the raise of has_error.
FileReport(path) ==
  /\ TasksRun
  /\ pc[path] = "report"
  /\ reporter' = HandleVisits(path, r[path], reporter)
  /\ has_error' = (has_error \/ ~HandleSuccess(r[path]))
  /\ pc' = [pc EXCEPT ![path] = "done"]
  /\ UNCHANGED <<config_vars, lock_vars, pure_vars, disk_before, closed,
                 disk, cache_db, cache_updates, main_pc, result, source,
                 diagnostics, fix_iterations, r, stdout, ws_vars, analyzed, written,
                 warned, analysis, fx_vars>>

\* ----------------------------------------------------------- workspace task
\* The skip test given every export URL of the workspace as a target.
every_export_url ==
  {Specifier(p) : p \in PathSet} \cup UNION {members[m].export_urls : m \in DOMAIN members}

\* let path_urls = paths.iter().filter_map(..).collect::<HashSet<_>>();
path_urls == {Specifier(p) : p \in PathSet}

\* What collect_no_slow_type_diagnostics can return for a member: diagnostics
\* on the modules it exports, with or without a range.
SurfacePool(member) ==
  {FastCheckDiagnostic(url, rg) :
     url \in member.export_urls,
     rg \in {None, Some([text |-> <<>>, start |-> 0])}}

SurfaceResults(member) == SeqsUpTo(SurfacePool(member), MaxSurfaceDiags)

AfterMember(i) == IF i + 1 > Len(members) THEN "done" ELSE "member"

\* create_and_validate_publish_graph(..).await?
WsGraph ==
  /\ TasksRun
  /\ ws_pc = "graph"
  /\ \E graph_ok \in BOOLEAN :
       ws_pc' = IF ~graph_ok THEN "failed"
                ELSE IF members = <<>> THEN "done" ELSE "member"
  /\ UNCHANGED <<config_vars, lock_vars, pure_vars, disk_before, closed,
                 disk, cache_db, cache_updates, main_pc, result, file_vars,
                 reporter, stdout, has_error, ws_i, ws_diagnostics, ws_visited, fx_vars>>

\* One turn of `for member in &members` up to the lock: the export URLs, the
\* skip, the diagnostics and the raise of has_error.
WsMember ==
  /\ TasksRun
  /\ ws_pc = "member"
  /\ LET member == members[ws_i]
     IN \E urls_ok \in BOOLEAN, ds \in SurfaceResults(member) :
          IF ~urls_ok
          THEN /\ ws_pc' = "failed"
               /\ UNCHANGED <<ws_i, ws_diagnostics, has_error>>
          ELSE IF member.export_urls \cap path_urls = {} \/ ds = <<>>
          THEN /\ ws_pc' = AfterMember(ws_i)
               /\ ws_i' = ws_i + 1
               /\ UNCHANGED <<ws_diagnostics, has_error>>
          ELSE /\ has_error' = TRUE
               /\ ws_diagnostics' = ds
               /\ ws_pc' = "visit"
               /\ ws_i' = ws_i
  /\ UNCHANGED <<config_vars, lock_vars, pure_vars, disk_before, closed,
                 disk, cache_db, cache_updates, main_pc, result, file_vars,
                 reporter, stdout, ws_visited, fx_vars>>

\* The visits of the member's diagnostics, under reporter_lock.
WsVisit ==
  /\ TasksRun
  /\ ws_pc = "visit"
  /\ reporter' = VisitAll(reporter,
                          [k \in DOMAIN ws_diagnostics |-> JsonOfFastCheck(ws_diagnostics[k])])
  /\ ws_visited' = ws_visited \o ws_diagnostics
  /\ ws_diagnostics' = <<>>
  /\ ws_pc' = AfterMember(ws_i)
  /\ ws_i' = ws_i + 1
  /\ UNCHANGED <<config_vars, lock_vars, pure_vars, disk_before, closed,
                 disk, cache_db, cache_updates, main_pc, result, file_vars,
                 stdout, has_error, fx_vars>>

\* ------------------------------------------------- the end of lint_files
\* run_parallelized (crate::tools::fmt) runs every closure and then returns
\* the error of one that failed.
PoolFinished == \A p \in PathSet : pc[p] \in {"done", "failed", "panicked"}

PoolPanicked == PoolFinished /\ \E p \in PathSet : pc[p] = "panicked"

PoolFailed == PoolFinished /\ \E p \in PathSet : pc[p] = "failed"

\* lint_files going on without awaiting the futures.
JoinWithoutAwait ==
  /\ main_pc = "join"
  /\ main_pc' = "wait"
  /\ UNCHANGED <<config_vars, lock_vars, pure_vars, disk_before, closed, disk, cache_db,
                 cache_updates, result, file_vars, reporter, stdout, has_error, ws_vars,
                 fx_vars>>

\* try_join_all(futures).await?: returns at the first future that fails, else
\* when all are done.
Join ==
  /\ main_pc = "join"
  /\ \/ ws_pc = "failed"
     \/ PoolFinished /\ (ws_pc \in {"none", "done"} \/ PoolFailed \/ PoolPanicked)
  /\ IF PoolPanicked
     THEN main_pc' = "returned" /\ result' = [kind |-> "panic"]
     ELSE IF ws_pc = "failed" \/ PoolFailed
     THEN main_pc' = "returned" /\ result' = LintErr("task failed")
     ELSE main_pc' = "wait" /\ result' = result
  /\ UNCHANGED <<config_vars, lock_vars, pure_vars, disk_before, closed,
                 disk, cache_db, cache_updates, file_vars, reporter, stdout,
                 has_error, ws_vars, fx_vars>>

\* incremental_cache.wait_completion().await: the updates are durable.
WaitCompletion ==
  /\ main_pc = "wait"
  /\ cache_db' = cache_db \cup {<<u[1], u[2], CacheState>> : u \in cache_updates}
  /\ main_pc' = "close"
  /\ UNCHANGED <<config_vars, lock_vars, pure_vars, disk_before, closed,
                 disk, cache_updates, result, file_vars, reporter, stdout,
                 has_error, ws_vars, fx_vars>>

\* The number of files that were analyzed, instead of the number of targets.
analyzed_files_len == Cardinality(analyzed)

\* let target_files_len = paths.len();
target_files_len == Len(paths)

\* reporter_lock.lock().close(target_files_len); Ok(!has_error.is_raised())
Close ==
  /\ main_pc = "close"
  /\ reporter_lock = "free"
  /\ reporter' = CloseReporter(reporter)
  /\ stdout' = Some(CloseReporter(reporter))
  /\ closed' = Append(closed, target_files_len)
  /\ result' = Flag(~has_error)
  /\ main_pc' = "returned"
  /\ UNCHANGED <<config_vars, lock_vars, pure_vars, disk_before, disk, cache_db,
                 cache_updates, file_vars, has_error, ws_vars, fx_vars>>

\* ------------------------------------------------------------------- lint
\* What lint_stdin can return: the read of standard input fails, or the
\* analyzer's result on the text that was read.
StdinResults ==
  {LintErr("Failed to read from stdin")}
  \cup UNION {AnalyzerResults(StdinPath, text, Rules) : text \in {<<>>, <<"a">>}}

\* lint calling lint_files whatever collect_lint_files found.
LintWithoutEmptyCheck ==
  /\ main_pc = "lint"
  /\ main_pc' = "start"
  /\ UNCHANGED <<config_vars, lock_vars, pure_vars, disk_before, closed, disk, cache_db,
                 cache_updates, result, file_vars, reporter, stdout, has_error, ws_vars,
                 fx_vars>>

\* lint without --watch: the `?` of the setup calls; then, of standard input,
\* the rule check, lint_stdin, handle_lint_result and close(1); of files, the
\* collection of the target files, its emptiness check and the call of
\* lint_files.
Lint ==
  /\ main_pc = "lint"
  /\ \E setup_ok \in BOOLEAN, res \in StdinResults :
       IF ~setup_ok \/ (is_stdin /\ lint_rules.rules = <<>>) \/ (~is_stdin /\ paths = <<>>)
       THEN /\ main_pc' = "returned"
            /\ result' = LintErr(IF ~setup_ok THEN "setup failed"
                                 ELSE IF is_stdin THEN "No rules have been configured"
                                 ELSE "No target files found.")
            /\ UNCHANGED <<reporter, stdout, closed, analyzed>>
       ELSE IF is_stdin
       THEN /\ analyzed' = IF res = LintErr("Failed to read from stdin")
                           THEN analyzed ELSE analyzed \cup {StdinPath}
            /\ reporter' = CloseReporter(HandleVisits(StdinPath, res, reporter))
            /\ stdout' = Some(CloseReporter(HandleVisits(StdinPath, res, reporter)))
            /\ closed' = Append(closed, 1)
            /\ result' = Flag(HandleSuccess(res))
            /\ main_pc' = "returned"
       ELSE /\ main_pc' = "start"
            /\ UNCHANGED <<result, reporter, stdout, closed, analyzed>>
  /\ UNCHANGED <<config_vars, lock_vars, pure_vars, disk_before, disk, cache_db,
                 cache_updates, pc, source, diagnostics, fix_iterations, r, written,
                 warned, analysis, has_error, ws_vars, fx_vars>>

\* ---------------------------------------------------------- specifications
\* The configurations of one rule, with the workspace check.
OneRule == {[rules |-> <<c>>, no_slow_types |-> TRUE] : c \in Range(RuleCodes)}

\* A workspace of two members, one exporting the first target file and one
\* exporting a module that is no target.
TwoMembers ==
  <<[export_urls |-> {Specifier(Files[1])}], [export_urls |-> {OtherUrl}]>>

NotRun == [ran |-> FALSE]

NoFixes ==
  /\ fx_edits = <<>>
  /\ fx_diagnostics = <<>>
  /\ fx_batch = NotRun

\* One run of lint_files over the target files, with the workspace task.
Init ==
  /\ \E f \in BOOLEAN, lr \in OneRule, dk \in [Range(Files) -> Texts] :
       InitRun(f, lr, TRUE, TwoMembers, Files, dk, {})
  /\ NoFixes
  /\ NoPure

Next ==
  \/ LintFilesStart
  \/ \E p \in PathSet : FileStart(p)
  \/ \E p \in PathSet : FileFix(p)
  \/ \E p \in PathSet : FileWrite(p)
  \/ \E p \in PathSet : FileReport(p)
  \/ WsGraph
  \/ WsMember
  \/ WsVisit
  \/ Join
  \/ WaitCompletion
  \/ Close

Spec == Init /\ [][Next]_vars

\* ------------------------------------------------- SpecFixes: apply_lint_fixes
\* The changes a fix can hold: every range within 0..MaxOff, with one of two
\* replacement texts.
EditPool ==
  {TextChange(s, e, <<c>>) : s \in 0..MaxOff, e \in 0..MaxOff, c \in {"a", "b"}}
  \cap {c \in [start : 0..MaxOff, end : 0..MaxOff, new_text : {<<"a">>, <<"b">>}] :
          c.start <= c.end}

FixPath == "/a.ts"

\* An alternative fix, which apply_lint_fixes is to ignore.
SecondFix == <<TextChange(0, MaxOff, <<"a">>)>>

\* The ways the changes are spread over diagnostics.
Shapes == {"each", "one", "alternatives", "mixed"}

RECURSIVE MixedShape(_)
MixedShape(es) ==
  IF es = <<>> THEN <<LintDiagnostic(FixPath, 0, "ban-x", <<>>)>>
  ELSE <<LintDiagnostic(FixPath, 0, "ban-x", <<>>),
         LintDiagnostic(FixPath, Head(es).start, "prefer-y", << <<Head(es)>>, SecondFix >>),
         LintDiagnostic(FixPath, 0, "prefer-y", << <<>>, SecondFix >>)>>
       \o MixedShape(Tail(es))

Shaped(es, shape) ==
  CASE shape = "each" ->
         [k \in DOMAIN es |-> LintDiagnostic(FixPath, es[k].start, "prefer-y", << <<es[k]>> >>)]
    [] shape = "one" ->
         <<LintDiagnostic(FixPath, 0, "prefer-y", <<es>>)>>
    [] shape = "alternatives" ->
         [k \in DOMAIN es |->
            LintDiagnostic(FixPath, es[k].start, "prefer-y", << <<es[k]>>, SecondFix >>)]
    [] shape = "mixed" -> MixedShape(es)

InitFixes ==
  /\ InitRun(TRUE, [rules |-> RuleCodes, no_slow_types |-> FALSE], FALSE, <<>>, <<>>,
             <<>>, {})
  /\ \E es \in SeqsUpTo(EditPool, MaxEdits), shape \in Shapes :
       /\ fx_edits = es
       /\ fx_diagnostics = Shaped(es, shape)
  /\ fx_batch = NotRun
  /\ NoPure

\* apply_lint_fixes up to its call of apply_text_changes.
ApplyFixes ==
  /\ ~fx_batch.ran
  /\ fx_batch' = [ran |-> TRUE, batch |-> FixBatch(fx_diagnostics)]
  /\ UNCHANGED <<config_vars, lock_vars, pure_vars, disk_before, closed,
                 disk, cache_db, cache_updates, main_pc, result, file_vars,
                 reporter, stdout, has_error, ws_vars, fx_edits, fx_diagnostics>>

NextFixes == ApplyFixes

SpecFixes == InitFixes /\ [][NextFixes]_vars

\* ------------------------------------------ SpecFix: one file under --fix
\* One run over one target file with --fix, both rules and no workspace task.
InitFix ==
  /\ \E dk \in [{Files[1]} -> Texts] :
       InitRun(TRUE, [rules |-> RuleCodes, no_slow_types |-> FALSE], FALSE, <<>>,
               <<Files[1]>>, dk, {})
  /\ NoFixes
  /\ NoPure

NextFix ==
  \/ LintFilesStart
  \/ \E p \in PathSet : FileStart(p)
  \/ \E p \in PathSet : FileFix(p)
  \/ \E p \in PathSet : FileWrite(p)
  \/ \E p \in PathSet : FileReport(p)
  \/ Join
  \/ WaitCompletion
  \/ Close

SpecFix == InitFix /\ [][NextFix]_vars

\* -------------------------------- SpecLoop: the fix loop under any analyzer
\* One run over one target file with --fix under the rule "rewrite-z", whose
\* fixes are any changes: fixes that bring the diagnostic back, that take the
\* text to and fro, or that overlap.
InitLoop ==
  /\ \E dk \in [{Files[1]} -> Texts] :
       InitRun(TRUE, [rules |-> <<"rewrite-z">>, no_slow_types |-> FALSE], FALSE, <<>>,
               <<Files[1]>>, dk, {})
  /\ NoFixes
  /\ NoPure

NextLoop ==
  \/ LintFilesStart
  \/ \E p \in PathSet : FileStart(p)
  \/ \E p \in PathSet : FileFix(p)
  \/ \E p \in PathSet : FileWrite(p)
  \/ \E p \in PathSet : FileReport(p)
  \/ Join
  \/ WaitCompletion
  \/ Close

SpecLoop == InitLoop /\ [][NextLoop]_vars

\* --------------------------------------- SpecCache: two runs over one cache
\* A workspace whose only member exports no target file: the workspace task
\* runs and visits nothing.
OtherMember == <<[export_urls |-> {OtherUrl}]>>

\* The rule configurations of the two runs: one rule, or both in either order.
CacheRules ==
  {[rules |-> q, no_slow_types |-> TRUE] :
     q \in {<<RuleCodes[1]>>, RuleCodes, <<RuleCodes[2], RuleCodes[1]>>}}

\* A text other than the given one, for a file edited between the runs.
EditedText(text) == IF text = <<>> THEN <<"a">> ELSE <<>>

InitCache ==
  /\ \E f \in BOOLEAN, lr \in CacheRules :
       InitRun(f, lr, TRUE, OtherMember, <<Files[1]>>, [p \in {Files[1]} |-> <<"a">>], {})
  /\ NoFixes
  /\ NoPure

Durable(db, updates, state) == db \cup {<<u[1], u[2], state>> : u \in updates}

\* The command is run again on the same files and the same cache, with rules
\* that may have changed and files that may have been edited. The updates of a
\* run that returned before wait_completion may or may not have reached the
\* cache.
NextRun ==
  /\ main_pc = "returned"
  /\ run = 1
  /\ \E lr \in CacheRules, edited \in SUBSET PathSet, kept \in BOOLEAN :
       /\ prev' = [result |-> result,
                   clean |-> {p \in PathSet : r[p].kind = "ok" /\ r[p].diagnostics = <<>>},
                   rules |-> lint_rules,
                   edited |-> edited]
       /\ lint_rules' = lr
       /\ disk' = [p \in PathSet |-> IF p \in edited THEN EditedText(disk[p]) ELSE disk[p]]
       /\ cache_db' = IF result.kind # "flag" /\ kept
                      THEN Durable(cache_db, cache_updates, CacheState)
                      ELSE cache_db
  /\ run' = 2
  /\ cache_updates' = {}
  /\ main_pc' = "start"
  /\ result' = NoResult
  /\ pc' = [p \in PathSet |-> "idle"]
  /\ r' = [p \in PathSet |-> NoResult]
  /\ reporter' = NewJsonLintReporter
  /\ stdout' = None
  /\ has_error' = FALSE
  /\ ws_pc' = "none"
  /\ ws_i' = 1
  /\ analyzed' = {}
  /\ written' = {}
  /\ warned' = {}
  /\ analysis' = [p \in PathSet |-> NotAnalyzed]
  /\ disk_before' = disk'
  /\ closed' = <<>>
  /\ UNCHANGED <<fix, has_config, members, paths, is_stdin, source, diagnostics,
                 fix_iterations, ws_diagnostics, ws_visited, fx_vars, lock_vars, pure_vars>>

NextCache ==
  \/ LintFilesStart
  \/ \E p \in PathSet : FileStart(p)
  \/ \E p \in PathSet : FileFix(p)
  \/ \E p \in PathSet : FileWrite(p)
  \/ \E p \in PathSet : FileReport(p)
  \/ WsGraph
  \/ WsMember
  \/ Join
  \/ WaitCompletion
  \/ Close
  \/ NextRun

SpecCache == InitCache /\ [][NextCache]_vars

\* ------------------------------------------------ SpecLock: reporter_lock
\* handle_lint_result and the workspace task's visits, one visit a step. What a
\* holder of the lock has still to visit is a list of calls: a diagnostic, or an
\* error of a file.
DiagnosticVisit(jd) == [call |-> "visit_diagnostic", d |-> jd]

ErrorVisit(file_path, err) == [call |-> "visit_error", file_path |-> file_path, err |-> err]

\* handle_lint_result visiting the first diagnostic only.
HandleCallsFirstOnly(file_path, res) ==
  IF res.kind = "ok"
  THEN LET file_diagnostics == SortFileDiagnostics(res.diagnostics)
       IN [k \in DOMAIN file_diagnostics \cap {1} |->
             DiagnosticVisit(JsonOfLint(file_diagnostics[k], res.source))]
  ELSE <<ErrorVisit(file_path, res.err)>>

\* The calls handle_lint_result makes for a result, in their order.
HandleCalls(file_path, res) ==
  IF res.kind = "ok"
  THEN LET file_diagnostics == SortFileDiagnostics(res.diagnostics)
       IN [k \in DOMAIN file_diagnostics |->
             DiagnosticVisit(JsonOfLint(file_diagnostics[k], res.source))]
  ELSE <<ErrorVisit(file_path, res.err)>>

Visit(rep, visit) ==
  IF visit.call = "visit_diagnostic" THEN visit_diagnostic(rep, visit.d)
  ELSE visit_error(rep, visit.file_path, visit.err)

\* handle_lint_result taking the lock although it is held.
FileLockWithoutWaiting(path) ==
  /\ TasksRun
  /\ pc[path] = "report"
  /\ reporter_lock' = path
  /\ pending' = [pending EXCEPT ![path] = HandleCalls(path, r[path])]
  /\ held_visits' = 0
  /\ pc' = [pc EXCEPT ![path] = "visiting"]
  /\ UNCHANGED <<config_vars, pure_vars, disk_before, closed, disk, cache_db,
                 cache_updates, main_pc, result, source, diagnostics, fix_iterations, r,
                 reporter, stdout, has_error, ws_vars, analyzed, written, warned, analysis,
                 fx_vars>>

\* let mut reporter = reporter_lock.lock(); and the sort of the diagnostics.
FileLock(path) ==
  /\ TasksRun
  /\ pc[path] = "report"
  /\ reporter_lock = "free"
  /\ reporter_lock' = path
  /\ pending' = [pending EXCEPT ![path] = HandleCalls(path, r[path])]
  /\ held_visits' = 0
  /\ pc' = [pc EXCEPT ![path] = "visiting"]
  /\ UNCHANGED <<config_vars, pure_vars, disk_before, closed, disk, cache_db,
                 cache_updates, main_pc, result, source, diagnostics, fix_iterations, r,
                 reporter, stdout, has_error, ws_vars, analyzed, written, warned, analysis,
                 fx_vars>>

\* One reporter.visit_diagnostic(..) or reporter.visit_error(..) of
\* handle_lint_result.
FileVisit(path) ==
  /\ TasksRun
  /\ pc[path] = "visiting"
  /\ pending[path] # <<>>
  /\ reporter' = Visit(reporter, Head(pending[path]))
  /\ pending' = [pending EXCEPT ![path] = Tail(@)]
  /\ held_visits' = held_visits + 1
  /\ UNCHANGED <<config_vars, pure_vars, disk_before, closed, disk, cache_db,
                 cache_updates, main_pc, result, file_vars, stdout, has_error, ws_vars,
                 fx_vars, reporter_lock>>

\* The return of handle_lint_result, which drops the guard, and the raise of
\* has_error.
FileUnlock(path) ==
  /\ TasksRun
  /\ pc[path] = "visiting"
  /\ pending[path] = <<>>
  /\ reporter_lock' = "free"
  /\ held_visits' = 0
  /\ has_error' = (has_error \/ ~HandleSuccess(r[path]))
  /\ pc' = [pc EXCEPT ![path] = "done"]
  /\ UNCHANGED <<config_vars, pure_vars, disk_before, closed, disk, cache_db,
                 cache_updates, main_pc, result, source, diagnostics, fix_iterations, r,
                 reporter, stdout, ws_vars, analyzed, written, warned, analysis, fx_vars,
                 pending>>

\* let mut reporter = reporter_lock.lock(); of the workspace task.
WsLock ==
  /\ TasksRun
  /\ ws_pc = "visit"
  /\ reporter_lock = "free"
  /\ reporter_lock' = "ws"
  /\ pending' = [pending EXCEPT
                   !["ws"] = [k \in DOMAIN ws_diagnostics |->
                                DiagnosticVisit(JsonOfFastCheck(ws_diagnostics[k]))]]
  /\ held_visits' = 0
  /\ ws_pc' = "visiting"
  /\ UNCHANGED <<config_vars, pure_vars, disk_before, closed, disk, cache_db,
                 cache_updates, main_pc, result, file_vars, reporter, stdout, has_error,
                 ws_i, ws_diagnostics, ws_visited, fx_vars>>

\* One turn of `for diagnostic in &diagnostics`.
WsVisitOne ==
  /\ TasksRun
  /\ ws_pc = "visiting"
  /\ pending["ws"] # <<>>
  /\ reporter' = Visit(reporter, Head(pending["ws"]))
  /\ pending' = [pending EXCEPT !["ws"] = Tail(@)]
  /\ held_visits' = held_visits + 1
  /\ UNCHANGED <<config_vars, pure_vars, disk_before, closed, disk, cache_db,
                 cache_updates, main_pc, result, file_vars, stdout, has_error, ws_vars,
                 fx_vars, reporter_lock>>

\* The end of the `if !diagnostics.is_empty()` block, which drops the guard.
WsUnlock ==
  /\ TasksRun
  /\ ws_pc = "visiting"
  /\ pending["ws"] = <<>>
  /\ reporter_lock' = "free"
  /\ held_visits' = 0
  /\ ws_visited' = ws_visited \o ws_diagnostics
  /\ ws_diagnostics' = <<>>
  /\ ws_pc' = AfterMember(ws_i)
  /\ ws_i' = ws_i + 1
  /\ UNCHANGED <<config_vars, pure_vars, disk_before, closed, disk, cache_db,
                 cache_updates, main_pc, result, file_vars, reporter, stdout, has_error,
                 fx_vars, pending>>

\* A workspace of two members, each exporting one of the target files.
MembersOfFiles == [k \in DOMAIN Files |-> [export_urls |-> {Specifier(Files[k])}]]

\* One run without --fix over the two target files, each with the text "a",
\* under the rule "ban-x" and the workspace check.
InitLock ==
  /\ InitRun(FALSE, [rules |-> <<RuleCodes[1]>>, no_slow_types |-> TRUE], TRUE,
             MembersOfFiles, Files, [p \in Range(Files) |-> <<"a">>], {})
  /\ NoFixes
  /\ NoPure

NextLock ==
  \/ LintFilesStart
  \/ \E p \in PathSet : FileStart(p)
  \/ \E p \in PathSet : FileLock(p)
  \/ \E p \in PathSet : FileVisit(p)
  \/ \E p \in PathSet : FileUnlock(p)
  \/ WsGraph
  \/ WsMember
  \/ WsLock
  \/ WsVisitOne
  \/ WsUnlock
  \/ Join
  \/ WaitCompletion
  \/ Close

SpecLock == InitLock /\ [][NextLock]_vars

\* ------------------------- SpecIso: two closures under --fix, step by step
\* One run with --fix over the two target files under the rule "prefer-y", with
\* the workspace task; the closures take their steps in any order.
InitIso ==
  /\ \E dk \in [Range(Files) -> {<<>>, <<"a">>}] :
       InitRun(TRUE, [rules |-> <<RuleCodes[2]>>, no_slow_types |-> TRUE], TRUE,
               TwoMembers, Files, dk, {})
  /\ NoFixes
  /\ NoPure

NextIso ==
  \/ LintFilesStart
  \/ \E p \in PathSet : FileBegin(p)
  \/ \E p \in PathSet : FileFix(p)
  \/ \E p \in PathSet : FileWrite(p)
  \/ \E p \in PathSet : FileReport(p)
  \/ WsGraph
  \/ WsMember
  \/ WsVisit
  \/ Join
  \/ WaitCompletion
  \/ Close

SpecIso == InitIso /\ [][NextIso]_vars

\* ------------------------------------------------ SpecWs: the workspace task
\* A workspace of two members, one exporting a module that is no target and
\* one exporting the second target file and a module that is no target.
MixedMembers ==
  <<[export_urls |-> {OtherUrl}],
    [export_urls |-> {Specifier(Files[2]), OtherUrl}]>>

\* lint_rules.no_slow_types and maybe_config_file as get_configured_rules and
\* its callers give them: no_slow_types is true only with a configuration file.
WsConfigs ==
  {cf \in [no_slow_types : BOOLEAN, has_config : BOOLEAN] :
     cf.no_slow_types => cf.has_config}

\* One run without --fix over the target files, with and without the
\* workspace check, on either workspace.
InitWs ==
  /\ \E cf \in WsConfigs, ms \in {TwoMembers, MixedMembers},
        dk \in [Range(Files) -> {<<>>, <<"a">>}] :
       InitRun(FALSE, [rules |-> <<RuleCodes[1]>>, no_slow_types |-> cf.no_slow_types],
               cf.has_config, ms, Files, dk, {})
  /\ NoFixes
  /\ NoPure

NextWs ==
  \/ LintFilesStart
  \/ \E p \in PathSet : FileStart(p)
  \/ \E p \in PathSet : FileReport(p)
  \/ WsGraph
  \/ WsMember
  \/ WsVisit
  \/ Join
  \/ WaitCompletion
  \/ Close

SpecWs == InitWs /\ [][NextWs]_vars

\* ------------------------------------------------------- SpecLint: lint
\* The rule sets get_configured_rules can resolve to here: none, or one rule.
LintRuleSets == {<<>>, <<RuleCodes[1]>>}

\* What collect_lint_files can find: nothing, one file or both.
TargetFiles == {<<>>, <<Files[1]>>, Files}

\* One call of lint without --watch and without --fix, of standard input or of
\* files, with the workspace check.
InitLint ==
  /\ \E stdin \in BOOLEAN, rs \in LintRuleSets, ps \in TargetFiles :
       InitAt("lint", stdin, FALSE, [rules |-> rs, no_slow_types |-> TRUE], TRUE,
              TwoMembers, IF stdin THEN <<>> ELSE ps,
              [p \in Range(IF stdin THEN <<>> ELSE ps) |-> <<"a">>], {})
  /\ NoFixes
  /\ NoPure

NextLint ==
  \/ Lint
  \/ LintFilesStart
  \/ \E p \in PathSet : FileStart(p)
  \/ \E p \in PathSet : FileReport(p)
  \/ WsGraph
  \/ WsMember
  \/ WsVisit
  \/ Join
  \/ WaitCompletion
  \/ Close

SpecLint == InitLint /\ [][NextLint]_vars

\* ------------------------------------------ SpecRules: get_configured_rules
\* The rules of the linter (get_all_rules), in the order of their codes, each
\* with its tags.
AllRules ==
  <<[code |-> "ban-x", tags |-> {"recommended"}],
    [code |-> "camelcase", tags |-> {}],
    [code |-> "no-debugger", tags |-> {"recommended"}],
    [code |-> "verbatim-module-syntax", tags |-> {"jsr"}]>>

\* rules::get_filtered_rules: a rule passes when it has one of the tags (any
\* rule, without tags given) or is included, and is not excluded.
get_filtered_rules(maybe_tags, maybe_exclude, maybe_include) ==
  LET Passes(rule) ==
        /\ \/ IF maybe_tags.some THEN rule.tags \cap Range(maybe_tags.value) # {} ELSE TRUE
           \/ maybe_include.some /\ rule.code \in maybe_include.value
        /\ ~(maybe_exclude.some /\ rule.code \in maybe_exclude.value)
  IN SelectSeq(AllRules, Passes)

\* get_default_tags with "jsr" whatever the configuration file is.
DefaultTagsWithJsr(maybe_config_file) == <<"recommended", "jsr">>

get_default_tags(maybe_config_file) ==
  <<"recommended">>
  \o (IF maybe_config_file.some /\ maybe_config_file.value.is_package
      THEN <<"jsr">> ELSE <<>>)

\* The exclude and include lists without NO_SLOW_TYPES_NAME. The lists are only
\* searched, so they are kept as sets of names.
WithoutNoSlowTypes(maybe_names) ==
  IF maybe_names.some THEN Some(maybe_names.value \ {NO_SLOW_TYPES_NAME}) ELSE None

\* get_configured_rules: the codes of the filtered rules and the no_slow_types
\* flag.
get_configured_rules(rules, maybe_config_file) ==
  LET implicit_no_slow_types ==
        /\ maybe_config_file.some
        /\ (maybe_config_file.value.is_package \/ maybe_config_file.value.has_workspaces)
      no_slow_types ==
        /\ implicit_no_slow_types
        /\ ~(rules.exclude.some /\ NO_SLOW_TYPES_NAME \in rules.exclude.value)
      filtered ==
        get_filtered_rules(
          IF rules.tags.some THEN rules.tags ELSE Some(get_default_tags(maybe_config_file)),
          WithoutNoSlowTypes(rules.exclude),
          WithoutNoSlowTypes(rules.include))
  IN [rules |-> [k \in DOMAIN filtered |-> filtered[k].code],
      no_slow_types |-> no_slow_types]

\* The names a list of the configuration can hold.
RuleNames == {AllRules[k].code : k \in DOMAIN AllRules} \cup {NO_SLOW_TYPES_NAME}

MaybeNames == {None} \cup {Some(names) : names \in SUBSET RuleNames}

MaybeTags == {None, Some(<<>>), Some(<<"recommended">>), Some(<<"jsr">>),
              Some(<<"recommended", "jsr">>)}

MaybeConfigFiles ==
  {None} \cup {Some([is_package |-> pk, has_workspaces |-> ws]) : pk, ws \in BOOLEAN}

InitRules ==
  /\ InitRun(FALSE, [rules |-> RuleCodes, no_slow_types |-> FALSE], FALSE, <<>>, <<>>,
             <<>>, {})
  /\ NoFixes
  /\ \E tags \in MaybeTags, exclude \in MaybeNames, include \in MaybeNames,
        config \in MaybeConfigFiles :
       rc_config = [ran |-> TRUE,
                    rules |-> [tags |-> tags, exclude |-> exclude, include |-> include],
                    config |-> config]
  /\ rc_rules = NotConfigured
  /\ sd_input = <<>>
  /\ sd_output = NotConfigured
  /\ ics_rules = NotConfigured
  /\ ics_state = NotConfigured

Configure ==
  /\ ~rc_rules.ran
  /\ rc_rules' = [ran |-> TRUE,
                  value |-> get_configured_rules(rc_config.rules, rc_config.config)]
  /\ UNCHANGED <<config_vars, lock_vars, disk_before, closed, disk, cache_db,
                 cache_updates, main_pc, result, file_vars, reporter, stdout, has_error,
                 ws_vars, fx_vars, rc_config, sd_input, sd_output, ics_rules, ics_state>>

NextRules == Configure

SpecRules == InitRules /\ [][NextRules]_vars

\* ------------------------------------------------- SpecSort: sort_diagnostics
\* The positions a JsonLintDiagnostic's range can start at: two columns of the
\* first line and the start of the second.
SortPositions ==
  {[line |-> 1, col |-> 0, byte_pos |-> 0],
   [line |-> 1, col |-> 1, byte_pos |-> 1],
   [line |-> 2, col |-> 0, byte_pos |-> 2]}

\* The diagnostics the reporter can hold: of either target file, with a range
\* or without, of either rule.
JsonPool ==
  {[filename |-> Specifier(p), range |-> rg, code |-> c] :
     p \in Range(Files), rg \in {None} \cup {Some(pos) : pos \in SortPositions},
     c \in Range(RuleCodes)}

\* A reporter that was visited with any diagnostics, in any order.
InitSort ==
  /\ InitRun(FALSE, [rules |-> RuleCodes, no_slow_types |-> FALSE], FALSE, <<>>, <<>>,
             <<>>, {})
  /\ NoFixes
  /\ rc_config = NotConfigured
  /\ rc_rules = NotConfigured
  /\ sd_input \in SeqsUpTo(JsonPool, MaxSortLen)
  /\ sd_output = NotConfigured
  /\ ics_rules = NotConfigured
  /\ ics_state = NotConfigured

\* JsonLintReporter::close on the reporter that holds sd_input.
CloseSort ==
  /\ ~sd_output.ran
  /\ sd_output' =
       [ran |-> TRUE,
        value |-> CloseReporter([diagnostics |-> sd_input, errors |-> <<>>]).diagnostics]
  /\ UNCHANGED <<config_vars, lock_vars, disk_before, closed, disk, cache_db,
                 cache_updates, main_pc, result, file_vars, reporter, stdout, has_error,
                 ws_vars, fx_vars, rc_config, rc_rules, sd_input, ics_rules,
                 ics_state>>

NextSort == CloseSort

SpecSort == InitSort /\ [][NextSort]_vars

\* ---------------------------------------- SpecState: incremental_cache_state
\* The rule lists lint_files gives to incremental_cache_state: get_filtered_rules
\* returns each rule at most once, and get_config_rules_err_empty lets no empty
\* list through.
RuleLists ==
  {rs \in SeqsUpTo(Range(RuleCodes), Len(RuleCodes)) :
     rs # <<>> /\ \A i, j \in DOMAIN rs : rs[i] = rs[j] => i = j}

ConfiguredRulesSet == [rules : RuleLists, no_slow_types : BOOLEAN]

\* Two values of ConfiguredRules.
InitState ==
  /\ InitRun(FALSE, [rules |-> RuleCodes, no_slow_types |-> FALSE], FALSE, <<>>, <<>>,
             <<>>, {})
  /\ NoFixes
  /\ rc_config = NotConfigured
  /\ rc_rules = NotConfigured
  /\ sd_input = <<>>
  /\ sd_output = NotConfigured
  /\ \E a, b \in ConfiguredRulesSet : ics_rules = [ran |-> TRUE, a |-> a, b |-> b]
  /\ ics_state = NotConfigured

\* lint_rules.incremental_cache_state() on each.
CacheStates ==
  /\ ~ics_state.ran
  /\ ics_state' = [ran |-> TRUE,
                   a |-> incremental_cache_state(ics_rules.a),
                   b |-> incremental_cache_state(ics_rules.b)]
  /\ UNCHANGED <<config_vars, lock_vars, disk_before, closed, disk, cache_db,
                 cache_updates, main_pc, result, file_vars, reporter, stdout, has_error,
                 ws_vars, fx_vars, rc_config, rc_rules, sd_input, sd_output, ics_rules>>

NextState == CacheStates

SpecState == InitState /\ [][NextState]_vars

\* ---------------------------------------------------------------- claims
\* Whether a diagnostic's first candidate fix has at least one change.
FirstFixHasEdit(d) == d.fixes # <<>> /\ d.fixes[1] # <<>>

\* Whether a diagnostic carries any candidate fix with at least one change.
AnyFixHasEdit(d) == \E k \in DOMAIN d.fixes : d.fixes[k] # <<>>

\* C2: when every analysis (the initial one and each re-analysis) returns a
\* diagnostic whose first fix has a change, lint_file_and_fix leaves its loop
\* after exactly 5 applied batches, that is 5 re-analyses, with the warning
\* given. The loop is left with the diagnostics still fixable only through
\* the iteration bound, so every analysis before was fixable too.
C2_ExactlyFiveBatches ==
  \A p \in PathSet :
    (pc[p] = "write" /\ \E k \in DOMAIN diagnostics[p] : FirstFixHasEdit(diagnostics[p][k]))
      => (fix_iterations[p] = 5 /\ p \in warned)
NonOverlapping(batch) ==
  \A i, j \in DOMAIN batch : i < j => batch[j].start >= batch[i].end

\* C3: every batch apply_lint_fixes hands to the text-change applier is
\* pairwise non-overlapping: of two surviving changes, the later-starting one
\* starts at or after the end of the earlier one.
C3_BatchNonOverlapping ==
  (fx_batch.ran /\ fx_batch.batch.some) => NonOverlapping(fx_batch.batch.value)

\* The stable sort by start, stated without the algorithm: the permutation that
\* orders the changes by (start, position).
StableSortedByStart(es) ==
  LET n == Len(es)
      perm == CHOOSE f \in [1..n -> 1..n] :
                /\ \A i, j \in 1..n : i # j => f[i] # f[j]
                /\ \A i, j \in 1..n : i < j =>
                     \/ es[f[i]].start < es[f[j]].start
                     \/ es[f[i]].start = es[f[j]].start /\ f[i] < f[j]
  IN [k \in 1..n |-> es[perm[k]]]

SurvivesNeighbour(sorted, i) == i = 1 \/ ~(sorted[i].start < sorted[i - 1].end)

RECURSIVE KeepSurvivors(_, _)
KeepSurvivors(sorted, i) ==
  IF i > Len(sorted) THEN <<>>
  ELSE (IF SurvivesNeighbour(sorted, i) THEN <<sorted[i]>> ELSE <<>>)
       \o KeepSurvivors(sorted, i + 1)

ReferenceBatch(es) == KeepSurvivors(StableSortedByStart(es), 1)

\* C4: the batch is the reference operator's: the changes of the first fixes,
\* stably sorted by start, without each change that starts before the end of
\* its predecessor in the sorted list; the first sorted change always survives
\* and the batch is never empty. No change at all means no batch.
C4_BatchIsReference ==
  fx_batch.ran =>
    IF fx_edits = <<>> THEN ~fx_batch.batch.some
    ELSE /\ fx_batch.batch.some
         /\ fx_batch.batch.value = ReferenceBatch(fx_edits)
         /\ fx_batch.batch.value # <<>>
         /\ fx_batch.batch.value[1] = StableSortedByStart(fx_edits)[1]

\* The spec's example, scaled to the offsets of the model: [0,2), [1,3), [3,4)
\* leave [0,2) and [3,4).
C4_Witness ==
  /\ fx_batch.ran
  /\ fx_edits = <<TextChange(1, 3, <<"b">>), TextChange(0, 2, <<"a">>),
                  TextChange(3, 4, <<"a">>)>>
  /\ fx_batch.batch = Some(<<TextChange(0, 2, <<"a">>), TextChange(3, 4, <<"a">>)>>)

\* C5: with --fix, when the analysis that opens lint_file_and_fix returns no
\* diagnostic with a candidate fix that has a change, the loop ends at once
\* with (source, diagnostics) untouched, no re-analysis and no change of the
\* file, and the function returns that pair without writing the file.
C5_NothingToFixIsNoOp ==
  [][\A p \in PathSet :
       /\ (/\ pc[p] = "fix"
           /\ fix_iterations[p] = 0
           /\ \A k \in DOMAIN diagnostics[p] : ~AnyFixHasEdit(diagnostics[p][k])
           /\ pc'[p] # pc[p])
          => /\ pc'[p] = "write"
             /\ source'[p] = source[p]
             /\ diagnostics'[p] = diagnostics[p]
             /\ fix_iterations'[p] = 0
             /\ r'[p] = r[p]
             /\ disk' = disk
       /\ (pc[p] = "write" /\ fix_iterations[p] = 0 /\ pc'[p] # pc[p])
          => /\ r'[p] = LintOk(source[p], diagnostics[p])
             /\ disk' = disk
             /\ written' = written]_vars

C5_Witness ==
  \E p \in PathSet :
    /\ fix
    /\ pc[p] = "report"
    /\ r[p].kind = "ok"
    /\ r[p].diagnostics # <<>>
    /\ p \notin written
    /\ disk[p] = r[p].source

\* ------------------------------------------------------- claims on lint_files
ErrorsOf(p) == {k \in DOMAIN reporter.errors : reporter.errors[k].file_path = p}

\* The lint diagnostics the reporter holds for a file (the workspace task's have
\* the no-slow-types code).
LintVisitsOf(p) ==
  {k \in DOMAIN reporter.diagnostics :
     /\ reporter.diagnostics[k].filename = Specifier(p)
     /\ reporter.diagnostics[k].code # NO_SLOW_TYPES_NAME}

\* The reporter after the visits of one schedule: the workspace task's first,
\* then each file's in the order of the target files.
RECURSIVE VisitFilesInOrder(_, _)
VisitFilesInOrder(rep, ps) ==
  IF ps = <<>> THEN rep
  ELSE VisitFilesInOrder(IF r[Head(ps)].kind = "none" THEN rep
                         ELSE HandleVisits(Head(ps), r[Head(ps)], rep),
                         Tail(ps))

SequentialDocument ==
  CloseReporter(
    VisitFilesInOrder(
      VisitAll(NewJsonLintReporter,
               [k \in DOMAIN ws_visited |-> JsonOfFastCheck(ws_visited[k])]),
      paths))

\* C1: for the same files, the same results of the file closures and the same
\* diagnostics of the workspace task, the document printed at close is the one
\* of every other interleaving, here the one where the workspace task visits
\* first and the files report in the order of the target files: the same
\* diagnostics and the same errors in the same order.
C1_DocumentIsScheduleIndependent ==
  (main_pc = "returned" /\ stdout.some) => stdout.value = SequentialDocument

\* C6: every update_file(path, text) call is for a file whose lint_file result
\* is Ok with no diagnostics and whose returned source has exactly that text, the
\* analyzer having run on the file; the text is the content of the file (with
\* --fix and a batch applied, the content written).
C6_UpdateFileOnlyCleanFinalText ==
  \A u \in cache_updates :
    LET p == u[1]
        text == u[2]
    IN /\ p \in analyzed
       /\ r[p].kind = "ok"
       /\ r[p].diagnostics = <<>>
       /\ r[p].source = text
       /\ disk[p] = text

C6_Witness ==
  \E p \in PathSet :
    /\ fix
    /\ p \in written
    /\ <<p, disk[p]>> \in cache_updates
    /\ pc[p] = "done"

AnalyzerFailedOn(p) ==
  pc[p] = "done" /\ r[p].kind = "err" /\ r[p].err \in {"syntax error", FIX_SYNTAX_ERROR}

CleanResult(p) == pc[p] = "done" /\ r[p].kind = "ok" /\ r[p].diagnostics = <<>>

ReadFailed == \E p \in PathSet : pc[p] = "failed"

C9_EveryFailureIsReported ==
  \A p \in PathSet :
    (pc[p] = "failed" \/ (pc[p] = "done" /\ r[p].kind = "err"))
      => (Cardinality(ErrorsOf(p)) = 1 /\ has_error)

\* C10: when lint_files returns a flag, it is false exactly when the reporter
\* was visited (a diagnostic of a file's final analysis, a diagnostic of the
\* workspace task, or an error).
C10_FlagIffVisited ==
  (main_pc = "returned" /\ result.kind = "flag") =>
    (result.success = FALSE
       <=> (reporter.diagnostics # <<>> \/ reporter.errors # <<>>))

\* A file whose diagnostics were all fixed, in a run that returns success.
C10_Witness ==
  /\ main_pc = "returned"
  /\ result = Flag(TRUE)
  /\ written # {}

\* ------------------------------------------------------ claims on the cache
SameRuleSet ==
  /\ Range(prev.rules.rules) = Range(lint_rules.rules)
  /\ prev.rules.no_slow_types = lint_rules.no_slow_types

RulesDifferByOneCode ==
  LET before == Range(prev.rules.rules)
      now == Range(lint_rules.rules)
  IN Cardinality((before \ now) \cup (now \ before)) = 1

\* What "skipped" means for a file of the second run: the analyzer is not
\* invoked on it and its closure visits nothing.
NotTouched(p) == p \notin analyzed /\ ErrorsOf(p) = {} /\ LintVisitsOf(p) = {}

CleanBeforeAndUnchanged(p) ==
  run = 2 /\ p \in prev.clean /\ p \notin prev.edited /\ SameRuleSet

VisitCount == Len(reporter.diagnostics) + Len(reporter.errors)

Flushed == \A u \in cache_updates : <<u[1], u[2], CacheState>> \in cache_db

\* C11: in a run that returns a flag, every update_file call and every visit
\* is made before wait_completion is awaited, wait_completion is over before
\* close is called, close is called once, and nothing is visited after it: past
\* the join every closure and the workspace task have ended, no step changes
\* the updates or the number of visits, close runs on the flushed cache and has
\* not run before, and the flag is returned with exactly one close made.
C11_EventsAreOrdered ==
  /\ []((main_pc \in {"wait", "close"} \/ result.kind = "flag") =>
          /\ \A p \in PathSet : pc[p] = "done"
          /\ ws_pc \in {"none", "done"})
  /\ [][/\ (cache_updates' # cache_updates \/ VisitCount' # VisitCount)
             => (main_pc = "join" /\ main_pc' = "join")
        /\ closed' # closed
             => (main_pc = "close" /\ closed = <<>> /\ Flushed /\ result'.kind = "flag")
        /\ (result'.kind = "flag" /\ result.kind # "flag") => Len(closed') = 1]_vars

\* A run that returned a flag after updates and visits of both kinds.
C11_Witness ==
  /\ result.kind = "flag"
  /\ Len(closed) = 1
  /\ cache_updates # {}
  /\ reporter.diagnostics # <<>>
  /\ reporter.errors # <<>>
  /\ Flushed

\* -------------------------------------------- claims on get_configured_rules
CodesTagged(tags) ==
  {AllRules[k].code : k \in {j \in DOMAIN AllRules : AllRules[j].tags \cap tags # {}}}

Excluded == IF rc_config.rules.exclude.some THEN rc_config.rules.exclude.value ELSE {}

NoTagsNoConfigFile == rc_rules.ran /\ ~rc_config.rules.tags.some /\ ~rc_config.config.some

\* C12, whatever the include list is: without tags in the configuration and
\* without a configuration file, get_configured_rules returns the recommended
\* rules without the excluded codes.
C12_RecommendedMinusExcluded ==
  NoTagsNoConfigFile =>
    Range(rc_rules.value.rules) = CodesTagged({"recommended"}) \ Excluded

\* C12, for an include list that is absent or names recommended rules only:
\* without tags in the configuration, get_configured_rules returns each rule of
\* the default tags once, without the excluded codes; the default tags are
\* "recommended", and "jsr" too exactly when the configuration file is a
\* package, so without a configuration file it is the recommended set.
C12_RecommendedMinusExcludedWithoutInclude ==
  (/\ rc_rules.ran
   /\ ~rc_config.rules.tags.some
   /\ (rc_config.rules.include.some =>
         rc_config.rules.include.value \subseteq
           CodesTagged({"recommended"}) \cup {NO_SLOW_TYPES_NAME}))
    => LET package == rc_config.config.some /\ rc_config.config.value.is_package
           default == IF package THEN {"recommended", "jsr"} ELSE {"recommended"}
       IN /\ Range(rc_rules.value.rules) = CodesTagged(default) \ Excluded
          /\ Len(rc_rules.value.rules) = Cardinality(Range(rc_rules.value.rules))

\* The configuration of the test: "no-debugger" excluded, nothing else given.
C12_Witness ==
  /\ NoTagsNoConfigFile
  /\ rc_config.rules.exclude = Some({"no-debugger"})
  /\ rc_config.rules.include = None
  /\ rc_rules.value = [rules |-> <<"ban-x">>, no_slow_types |-> FALSE]

\* ------------------------------------------------- claims on overlap removal
Occurrences(seq, e) == Cardinality({k \in DOMAIN seq : seq[k] = e})

\* The changes overlap removal dropped: those the batch holds fewer times than
\* the list of the first fixes' changes.
DroppedEdits ==
  {e \in Range(fx_edits) : Occurrences(fx_batch.batch.value, e) < Occurrences(fx_edits, e)}

\* C13: every change dropped by overlap removal overlaps a change of the batch
\* that starts no later: it starts before the end of a surviving change.
C13_DroppedOverlapsSurvivor ==
  (fx_batch.ran /\ fx_batch.batch.some) =>
    \A e \in DroppedEdits :
      \E k \in DOMAIN fx_batch.batch.value :
        LET survivor == fx_batch.batch.value[k]
        IN survivor.start <= e.start /\ e.start < survivor.end

\* ------------------------------------------------ claims on lint_file_and_fix
InFixLoop(p) == pc[p] \in {"fix", "write"}

\* C14: throughout lint_file_and_fix (source, diagnostics) is what the latest
\* analyzer invocation returned, and that invocation ran on the text of
\* `source`; there is one invocation for the initial lint and one per batch;
\* the text a batch is applied to and the diagnostics it is computed from are
\* those of one invocation, whose successor runs on the text the batch
\* produced; and the text written to the file is the text of the returned
\* source, returned with that invocation's diagnostics.
C14_WorkingPairIsLatestAnalysis ==
  /\ [](\A p \in PathSet :
          InFixLoop(p) =>
            /\ analysis[p].result = LintOk(source[p], diagnostics[p])
            /\ analysis[p].text = source[p]
            /\ analysis[p].count = fix_iterations[p] + 1)
  /\ [][\A p \in PathSet :
          /\ (InFixLoop(p) /\ analysis'[p].count > analysis[p].count)
               => /\ analysis'[p].count = analysis[p].count + 1
                  /\ analysis[p].result.kind = "ok"
                  /\ LET batch == FixBatch(analysis[p].result.diagnostics)
                     IN /\ batch.some
                        /\ analysis'[p].text = Splice(analysis[p].text, batch.value, 0)
          /\ (p \in written' /\ p \notin written)
               => /\ disk'[p] = analysis[p].text
                  /\ r'[p] = analysis[p].result
                  /\ r'[p].source = disk'[p]]_vars

\* A file written after two batches, with diagnostics left that have no fix.
C14_Witness ==
  \E p \in PathSet :
    /\ p \in written
    /\ pc[p] = "report"
    /\ r[p].kind = "ok"
    /\ r[p].diagnostics # <<>>
    /\ r[p].source = disk[p]
    /\ disk[p] = disk_before[p]

\* Whether a re-analysis of the fix loop has failed on the file: its latest
\* analyzer invocation, not the first, returned an error.
ReanalysisFailed(p) == analysis[p].count >= 2 /\ analysis[p].result.kind = "err"

\* C15: when a re-analysis in the fix loop fails, after the first batch or a
\* later one, lint_file_and_fix returns an error with the context "An applied
\* lint fix caused a syntax error", which is neither the analyzer's own error
\* nor the write error; the file is not written and has the content it had
\* when the run began; update_file is not called for it; and the closure
\* reports the error through visit_error, once, with no visit_diagnostic.
C15_FailedReanalysisAborts ==
  \A p \in PathSet :
    ReanalysisFailed(p) =>
      /\ r[p].kind = "err"
      /\ r[p].err = "An applied lint fix caused a syntax error. Please report this bug."
      /\ r[p].err = FIX_SYNTAX_ERROR
      /\ p \notin written
      /\ disk[p] = disk_before[p]
      /\ \A u \in cache_updates : u[1] # p
      /\ LintVisitsOf(p) = {}
      /\ pc[p] \in {"report", "done"}
      /\ pc[p] = "done" =>
           /\ Cardinality(ErrorsOf(p)) = 1
           /\ \A k \in ErrorsOf(p) : reporter.errors[k].message = FIX_SYNTAX_ERROR
           /\ has_error

\* A re-analysis that failed after two batches had been applied, reported.
C15_Witness ==
  \E p \in PathSet :
    /\ analysis[p].count = 3
    /\ ReanalysisFailed(p)
    /\ pc[p] = "done"
    /\ main_pc = "returned"
    /\ result = Flag(FALSE)

\* ------------------------------------------------------ claims on the skip
\* A file whose closure ended at the `return Ok(())` of the cache check.
Skipped(p) == pc[p] = "done" /\ p \notin analyzed

\* C16: when is_file_same is true for a file that was read, the closure ends
\* there and nothing else changes: the analyzer is not invoked, nothing is
\* visited, update_file is not called, the file is not written (with --fix
\* too) and the error flag is left as it is. Such a file stays without visits,
\* updates and writes to the end of the run, the flag is raised only along
\* with a visit of something else, and close is given the number of target
\* files, the skipped ones counted.
C16_SkipHasNoEffect ==
  /\ [](\A p \in PathSet :
          Skipped(p) =>
            /\ NotTouched(p)
            /\ \A u \in cache_updates : u[1] # p
            /\ p \notin written
            /\ disk[p] = disk_before[p]
            /\ r[p] = NoResult
            /\ has_error => VisitCount > 0
            /\ closed # <<>> => closed = <<Cardinality(PathSet)>>)
  /\ [][\A p \in PathSet :
          (/\ pc[p] = "start"
           /\ pc'[p] \notin {"start", "failed"}
           /\ is_file_same(cache_db, CacheState, p, disk[p]))
            => /\ pc'[p] = "done"
               /\ UNCHANGED <<analyzed, analysis, reporter, cache_updates, cache_db, disk,
                              written, has_error, r, source, diagnostics>>]_vars

\* A run with --fix that skipped its file and returned success.
C16_Witness ==
  /\ fix
  /\ run = 2
  /\ Skipped(Files[1])
  /\ result = Flag(TRUE)
  /\ closed = <<1>>

VisitsDue(task) ==
  IF task = "ws" THEN Len(ws_diagnostics)
  ELSE IF r[task].kind = "ok" THEN Len(r[task].diagnostics) ELSE 1

Contiguous(I) == \A i, j \in I : \A k \in i..j : k \in I

\* The diagnostics the reporter holds from the workspace task for a member.
MemberVisitsOf(member) ==
  {k \in DOMAIN reporter.diagnostics :
     /\ reporter.diagnostics[k].code = NO_SLOW_TYPES_NAME
     /\ reporter.diagnostics[k].filename \in member.export_urls}

\* C18: in the order of arrival, the diagnostics of one file form one block, in
\* ascending order of their start offsets, and the diagnostics of one workspace
\* member form one block; a visit is made only by the task that holds the lock,
\* one visit a step, and it is a visit of that task's file or member.
C18_VisitsComeInBlocks ==
  /\ [](stdout = None =>
          /\ \A p \in PathSet :
               /\ Contiguous(LintVisitsOf(p))
               /\ \A i, j \in LintVisitsOf(p) :
                    i < j => reporter.diagnostics[i].range.value.byte_pos
                               <= reporter.diagnostics[j].range.value.byte_pos
          /\ \A m \in DOMAIN members : Contiguous(MemberVisitsOf(members[m])))
  /\ [][(VisitCount' # VisitCount /\ stdout' = stdout)
          => /\ reporter_lock # "free"
             /\ reporter_lock' = reporter_lock
             /\ VisitCount' = VisitCount + 1
             /\ IF Len(reporter'.errors) # Len(reporter.errors)
                THEN reporter'.errors[Len(reporter'.errors)].file_path = reporter_lock
                ELSE LET d == reporter'.diagnostics[Len(reporter'.diagnostics)]
                     IN IF reporter_lock = "ws"
                        THEN /\ d.code = NO_SLOW_TYPES_NAME
                             /\ d.filename \in members[ws_i].export_urls
                        ELSE /\ d.code # NO_SLOW_TYPES_NAME
                             /\ d.filename = Specifier(reporter_lock)]_vars

\* Blocks of two diagnostics each from both files and from a workspace member,
\* the second file's and the member's arriving before the first file's.
C18_Witness ==
  /\ stdout = None
  /\ main_pc = "close"
  /\ Len(reporter.diagnostics) = 6
  /\ Cardinality(LintVisitsOf(Files[1])) = 2
  /\ Cardinality(LintVisitsOf(Files[2])) = 2
  /\ reporter.diagnostics[1].filename = Specifier(Files[2])
  /\ reporter.diagnostics[6].filename = Specifier(Files[1])
  /\ reporter.diagnostics[6].code # NO_SLOW_TYPES_NAME
  /\ reporter.diagnostics[5].range.value.byte_pos < reporter.diagnostics[6].range.value.byte_pos

\* The URLs of the requested files.
RequestedUrls == {Specifier(paths[k]) : k \in DOMAIN paths}

NotSkipped(member) == member.export_urls \cap RequestedUrls # {}

\* The diagnostics the reporter holds from the workspace task.
SurfaceVisits == {k \in DOMAIN reporter.diagnostics : reporter.diagnostics[k].code = NO_SLOW_TYPES_NAME}

\* A file's closure has reported a result that is an error or has diagnostics.
FileRaised == \E p \in PathSet : pc[p] = "done" /\ r[p] # NoResult /\ ~HandleSuccess(r[p])

\* The workspace task has found surface diagnostics for a member.
WsFound == ws_diagnostics # <<>> \/ ws_visited # <<>>

\* C19: the workspace task is spawned at most once, by lint_files before the
\* join, and only when no_slow_types is set and there is a configuration file;
\* a member none of whose export URLs is requested is passed over with no visit
\* and no raise of the flag, so every surface diagnostic the reporter holds is
\* of a member with a requested export URL; the flag is raised exactly when a
\* file's result was not a success or the workspace task found a surface
\* diagnostic for a member it did not skip.
C19_WorkspaceTask ==
  /\ [](/\ ws_pc # "none" => (lint_rules.no_slow_types /\ has_config)
        /\ stdout = None =>
             /\ Cardinality(SurfaceVisits) = Len(ws_visited)
             /\ \A k \in SurfaceVisits :
                  \E m \in DOMAIN members :
                    /\ NotSkipped(members[m])
                    /\ reporter.diagnostics[k].filename \in members[m].export_urls
        /\ has_error <=> (FileRaised \/ WsFound))
  /\ [][/\ (ws_pc = "none" /\ ws_pc' # "none")
             => (main_pc = "start" /\ main_pc' = "join" /\ ws_pc' = "graph")
        /\ ws_pc' = "graph" => ws_pc \in {"none", "graph"}
        /\ ws_pc' = "none" => ws_pc = "none"
        /\ (ws_pc = "member" /\ ws_pc' # "member" /\ ~NotSkipped(members[ws_i]))
             => /\ has_error' = has_error
                /\ reporter' = reporter
                /\ ws_pc' # "visit"
                /\ ws_diagnostics' = <<>>
        /\ (ws_pc' = "visit" /\ ws_pc # "visit")
             => /\ NotSkipped(members[ws_i])
                /\ ws_diagnostics' # <<>>
                /\ has_error'
        /\ ws_visited' # ws_visited
             => /\ NotSkipped(members[ws_i])
                /\ ws_visited' = ws_visited \o ws_diagnostics
                /\ Len(reporter'.diagnostics) = Len(reporter.diagnostics) + Len(ws_diagnostics)]_vars

\* The task has passed over the first member, which exports no requested file,
\* and visited two diagnostics of the second, one of them on a module that was
\* not requested; both files were clean, and the flag is raised.
C19_Witness ==
  /\ members = MixedMembers
  /\ ws_pc = "done"
  /\ Len(ws_visited) = 2
  /\ \E k \in DOMAIN ws_visited : ws_visited[k].specifier \notin RequestedUrls
  /\ ~FileRaised
  /\ has_error
  /\ main_pc = "returned"
  /\ result = Flag(FALSE)

\* Whether a may come before b in the emitted list: a's file is lower, or the
\* files are the same and a is located and b is not, or both are located and
\* a's (line, column) is not after b's, or neither is located.
InOrder(a, b) ==
  \/ CmpSpecifier(a.filename, b.filename) = "Less"
  \/ /\ a.filename = b.filename
     /\ \/ a.range.some /\ ~b.range.some
        \/ /\ a.range.some /\ b.range.some
           /\ \/ a.range.value.line < b.range.value.line
              \/ /\ a.range.value.line = b.range.value.line
                 /\ a.range.value.col <= b.range.value.col
        \/ ~a.range.some /\ ~b.range.some

SameKey(a, b) == InOrder(a, b) /\ InOrder(b, a)

\* The ways of placing the n arrivals at n distinct places.
Placements(n) == {f \in [1..n -> 1..n] : \A i, j \in 1..n : f[i] = f[j] => i = j}

\* C20: the list close emits holds the visited diagnostics, each once, in an
\* order where every diagnostic may come before every later one (by file, then
\* located before unlocated, then by line and column), and diagnostics with the
\* same key are in the order they arrived in.
C20_StableSortedPermutation ==
  sd_output.ran =>
    LET inp == sd_input
        out == sd_output.value
    IN /\ Len(out) = Len(inp)
       /\ \A i, j \in DOMAIN out : i < j => InOrder(out[i], out[j])
       /\ \E f \in Placements(Len(inp)) :
            /\ \A i \in DOMAIN inp : out[f[i]] = inp[i]
            /\ \A i, j \in DOMAIN inp :
                 (i < j /\ SameKey(inp[i], inp[j])) => f[i] < f[j]

\* Three diagnostics of one file arrived: two located at the same line and
\* column under different rules, after one without a location; close has moved
\* the unlocated one last and kept the two others in their order.
C20_Witness ==
  /\ sd_output.ran
  /\ Len(sd_input) = 3
  /\ ~sd_input[1].range.some
  /\ sd_input[2].range.some /\ sd_input[3].range.some
  /\ sd_input[2].filename = sd_input[1].filename
  /\ SameKey(sd_input[2], sd_input[3])
  /\ sd_input[2].code # sd_input[3].code
  /\ sd_output.value = <<sd_input[2], sd_input[3], sd_input[1]>>

\* C21: the states of two configurations are the same exactly when the
\* configurations enable the same set of rule codes, in whatever order, and
\* agree on no_slow_types.
C21_StateIsOfCodesAndFlag ==
  ics_state.ran =>
    LET a == ics_rules.a
        b == ics_rules.b
    IN (ics_state.a = ics_state.b)
         <=> (Range(a.rules) = Range(b.rules) /\ a.no_slow_types = b.no_slow_types)

\* The same two rules in opposite orders, with the workspace check, have been
\* given one state.
C21_Witness ==
  /\ ics_state.ran
  /\ Len(ics_rules.a.rules) = 2
  /\ ics_rules.a.rules # ics_rules.b.rules
  /\ Range(ics_rules.a.rules) = Range(ics_rules.b.rules)
  /\ ics_rules.a.no_slow_types /\ ics_rules.b.no_slow_types
  /\ ics_state.a = ics_state.b
  /\ ics_state.a[Len(ics_state.a)] = NO_SLOW_TYPES_NAME

\* No target file was found, or no rule is configured.
FatalSetup == (~is_stdin /\ paths = <<>>) \/ lint_rules.rules = <<>>

\* No task has been spawned and nothing was analyzed, asked of the cache,
\* recorded in it, visited or closed.
NothingRan ==
  /\ \A p \in PathSet : pc[p] = "idle"
  /\ ws_pc = "none"
  /\ analyzed = {}
  /\ cache_updates = {}
  /\ reporter = NewJsonLintReporter
  /\ closed = <<>>
  /\ stdout = None
  /\ ~has_error

\* C22: when lint of files finds no target file, or the rule set is empty
\* (lint of files or of standard input), lint goes from its setup to its return
\* with an error and nowhere else: no task is spawned, the analyzer is not
\* invoked, the cache is neither asked nor updated, and the reporter is neither
\* visited nor closed.
C22_FatalSetupRunsNothing ==
  FatalSetup =>
    /\ NothingRan
    /\ main_pc \in {"lint", "start", "returned"}
    /\ main_pc = "start" => paths # <<>>
    /\ main_pc = "returned" =>
         /\ result.kind = "err"
         /\ result.err \in {"setup failed", "No target files found.",
                             "No rules have been configured"}

\* lint of files with one rule has returned "No target files found.".
C22_Witness ==
  /\ ~is_stdin
  /\ paths = <<>>
  /\ lint_rules.rules # <<>>
  /\ main_pc = "returned"
  /\ result = LintErr("No target files found.")
  /\ NothingRan

\* lint_files, given target files, has returned "No rules have been configured".
C22_WitnessNoRules ==
  /\ ~is_stdin
  /\ paths # <<>>
  /\ lint_rules.rules = <<>>
  /\ main_pc = "returned"
  /\ result = LintErr("No rules have been configured")
  /\ NothingRan

\* The most analyzer invocations of one call of lint_file_and_fix: the initial
\* one and one for each turn of the loop, which ends when fix_iterations
\* exceeds MAX_FIX_ITERATIONS.
MaxInvocations == MAX_FIX_ITERATIONS + 2

\* lint_file_and_fix has ended with an error, or with the source and the
\* diagnostics of its last analysis.
EndedWithErrorOrPair(p) ==
  /\ pc[p] \in {"report", "done"}
  /\ r[p].kind \in {"ok", "err"}

\* The bound alone: no call makes more than MaxInvocations analyzer
\* invocations or more than MAX_FIX_ITERATIONS + 1 turns of the loop.
InvocationsBounded ==
  \A p \in PathSet :
    /\ analysis[p].count <= MaxInvocations
    /\ fix_iterations[p] <= MAX_FIX_ITERATIONS + 1

\* C23: whatever the analyzer returns, a call of lint_file_and_fix makes at
\* most MaxInvocations analyzer invocations, it is in its loop with the pair of
\* its latest analysis, and it leaves the loop only to return an error or that
\* pair: it does not end in any other way.
C23_LoopEndsWithErrorOrPair ==
  /\ InvocationsBounded
  /\ \A p \in PathSet :
       /\ pc[p] \in {"idle", "start", "fix", "write", "report", "done", "failed"}
       /\ pc[p] \in {"fix", "write"} =>
            /\ analysis[p].result.kind = "ok"
            /\ source[p] = analysis[p].result.source
            /\ diagnostics[p] = analysis[p].result.diagnostics

\* The loop has made all its turns on fixes that bring the diagnostic back.
C23_LoopRunsOut ==
  /\ pc[Files[1]] = "write"
  /\ analysis[Files[1]].count = MaxInvocations
  /\ fix_iterations[Files[1]] = MAX_FIX_ITERATIONS + 1
  /\ Files[1] \in warned

\* apply_text_changes has panicked inside the loop.
C23_LoopPanicked == pc[Files[1]] = "panicked"

\* What the reporter holds for a file from its closure, in the order it holds it.
SinkOf(rep, p) ==
  LET OfFile(d) == d.filename = Specifier(p) /\ d.code # NO_SLOW_TYPES_NAME
      OfPath(e) == e.file_path = p
  IN [diagnostics |-> SelectSeq(rep.diagnostics, OfFile),
      errors |-> SelectSeq(rep.errors, OfPath)]

\* What a closure running alone delivers for the result of its lint_file.
SinkAlone(p) ==
  LET alone == HandleVisits(p, r[p], NewJsonLintReporter)
  IN SinkOf(IF stdout.some THEN CloseReporter(alone) ELSE alone, p)

UpdatesOf(p) == {u \in cache_updates : u[1] = p}

\* What belongs to one file's closure: its place, its locals, its result, the
\* file, and what the cache and the reporter hold for it.
Local(p) ==
  <<pc[p], source[p], diagnostics[p], fix_iterations[p], r[p], disk[p], analysis[p],
    p \in analyzed, p \in written, p \in warned, UpdatesOf(p), SinkOf(reporter, p)>>

\* A file as it was before its closure delivered anything.
Untouched(p) ==
  /\ UpdatesOf(p) = {}
  /\ SinkOf(reporter, p) = SinkOf(NewJsonLintReporter, p)

====
